---- MODULE Spec2Model ----
(***************************************************************************)
(* The hourly dispatch engine of simplePPA: libs/calculator.py,            *)
(* calculate_ppa_cost.  One call of the function is a run of the state     *)
(* machine: the arguments are fixed by Init, HourLoop is one iteration of  *)
(* the loop over the hours and Return is the code after the loop.          *)
(*                                                                         *)
(* Numbers.  The code computes in floating point; the model computes the   *)
(* same expressions exactly, on a grid where every product is an integer:  *)
(* a fraction (normalized load, normalized solar generation, ppa_coverage, *)
(* ppa_mintake, ppa_resellrate, ess_price) is held as a whole number of    *)
(* percent, energies are kWh and costs are KRW.  ScaleExact states that no *)
(* division of the model ever rounds.                                      *)
(***************************************************************************)
EXTENDS Integers, Sequences, FiniteSets, TLC

\* Longest input series (hours) and number of calls of the function on the
\* same arguments.
MaxHours == 2
MaxRuns == 2

\* One hundred percent: ppa_coverage = ppa_percent / 100.
Percent == 100
\* load_kwh = load_mw * 1000
KwhPerMw == 1000

\* The values the arguments are drawn from.
LoadLevels == {0, 50, 100}          \* load_df['load'], percent of peak
SolarLevels == {0, 100}             \* ppa_df['generation'], percent of peak
GridRates == {170, 200}             \* grid_df['rate'], KRW/kWh
Coverages == {0, 50, 100, 200}        \* ppa_coverage, percent
Mintakes == {0, 50, 100}            \* ppa_mintake, percent
\* <<ppa_resell, ppa_resellrate>>: the rate (percent) is read only when
\* resale is allowed.
ResalePolicies == {<<FALSE, 50>>, <<TRUE, 50>>, <<TRUE, 100>>}
EssCapacities == {0, 500}           \* ess_capacity, kWh
LoadCapacities == {1}               \* load_capacity_mw
ContractFees == {10000}             \* contract_fee, KRW/kW
PpaPrices == {170}                  \* ppa_price, KRW/kWh
EssPrices == {50}                   \* ess_price, percent of ppa_price

VARIABLES
    args,                   \* the arguments of the call
    pc,                     \* "loop": in the for loop; "done": returned
    hour,                   \* number of hours processed
    ppa_cost, grid_energy_cost, ess_cost,
    ess_storage,
    peak_grid_demand_kw,
    total_ppa_purchased, total_ppa_excess, total_ppa_resold,
    total_load_met_by_ppa,
    ledger,                 \* the per-hour quantities of the hours processed
    grid_demand_cost, grid_total_cost, total_cost,
    runs,                   \* calls made so far on these arguments
    returned,               \* the tuples returned by the calls so far
    frames,                 \* the activations of the function made by a sweep
    \* The analysis run of main_gui.py / main_modular.py around the engine.
    config,                 \* the configuration dictionary
    data,                   \* the input series: load, generation, rate, emission
    mpc,                    \* position of the analysis run; "idle": none
    is_valid, errors,       \* what validate_config returned
    ppa_percent,            \* the loop variable of the sweep in progress
    results_summary,        \* the results of run_scenario_analysis
    results_ess,            \* the results of run_ess_analysis
    ess_capacity_kwh,       \* the ESS capacity run_ess_analysis computed
    calls,                  \* the engine invocations made, in order
    include_carbon,         \* the argument of find_optimal_scenario
    optimal, optimal_ess    \* what find_optimal_scenario returned, <<>> before

locals == <<ppa_cost, grid_energy_cost, ess_cost, ess_storage,
            peak_grid_demand_kw, total_ppa_purchased, total_ppa_excess,
            total_ppa_resold, total_load_met_by_ppa>>
results == <<grid_demand_cost, grid_total_cost, total_cost>>
engine == <<args, pc, hour, locals, ledger, results, runs, returned, frames>>
analysis == <<config, data, mpc, is_valid, errors, ppa_percent, results_summary,
              results_ess, ess_capacity_kwh, calls, include_carbon,
              optimal, optimal_ess>>
vars == <<engine, analysis>>

----------------------------------------------------------------------------
\* Python's builtins min, max and abs.
min(a, b) == IF a <= b THEN a ELSE b
max(a, b) == IF a >= b THEN a ELSE b
abs(a) == IF a < 0 THEN -a ELSE a

\* p percent of x.
Scale(p, x) == (p * x) \div Percent

\* ppa_generation_kwh with the factor ppa_coverage of line 54 forgotten.
ppa_generation_kwh_nocoverage(a, h) ==
    Scale(a.generation[h], a.load_capacity_mw * KwhPerMw)

\* Lines 46-58: the scaled series.
load_kwh(a, h) == Scale(a.load[h], a.load_capacity_mw * KwhPerMw)
ppa_generation_kwh(a, h) ==
    Scale(a.ppa_coverage, Scale(a.generation[h], a.load_capacity_mw * KwhPerMw))

\* mandatory_ppa taking the share that is not mandatory.
mandatory_ppa_complement(hour_ppa_gen, ppa_mintake) ==
    Scale(Percent - ppa_mintake, hour_ppa_gen)

\* Line 84.
mandatory_ppa(hour_ppa_gen, ppa_mintake) == Scale(ppa_mintake, hour_ppa_gen)

\* optional_ppa_purchased taking all that is available, needed or not.
optional_ppa_purchased_all(hour_load, hour_grid_rate, hour_ppa_gen, mandatory, ppa_price) ==
    LET optional_ppa_available == hour_ppa_gen - mandatory
        remaining_load_after_mandatory == max(0, hour_load - mandatory)
    IN  IF /\ optional_ppa_available > 0
           /\ ppa_price < hour_grid_rate
           /\ remaining_load_after_mandatory > 0
        THEN optional_ppa_available
        ELSE 0

\* optional_ppa_purchased buying also at a PPA price equal to the grid rate.
optional_ppa_purchased_le(hour_load, hour_grid_rate, hour_ppa_gen, mandatory, ppa_price) ==
    LET optional_ppa_available == hour_ppa_gen - mandatory
        remaining_load_after_mandatory == max(0, hour_load - mandatory)
    IN  IF /\ optional_ppa_available > 0
           /\ ppa_price <= hour_grid_rate
           /\ remaining_load_after_mandatory > 0
        THEN min(optional_ppa_available, remaining_load_after_mandatory)
        ELSE 0

\* Lines 87-95.
optional_ppa_purchased(hour_load, hour_grid_rate, hour_ppa_gen, mandatory, ppa_price) ==
    LET optional_ppa_available == hour_ppa_gen - mandatory
        remaining_load_after_mandatory == max(0, hour_load - mandatory)
    IN  IF /\ optional_ppa_available > 0
           /\ ppa_price < hour_grid_rate
           /\ remaining_load_after_mandatory > 0
        THEN min(optional_ppa_available, remaining_load_after_mandatory)
        ELSE 0

\* ess_charge filling the ESS whatever the excess is.
ess_charge_fill(excess_ppa, storage, max_ess_capacity) ==
    IF storage < max_ess_capacity THEN max_ess_capacity - storage ELSE 0

\* ess_charge with the capacity never looked at.
ess_charge_unlimited(excess_ppa, storage, max_ess_capacity) == excess_ppa

\* ess_charge with the min of line 116 dropped: all the excess is stored.
ess_charge_nomin(excess_ppa, storage, max_ess_capacity) ==
    IF storage < max_ess_capacity THEN excess_ppa ELSE 0

\* Lines 115-116: the energy put into the ESS in an excess hour.
ess_charge(excess_ppa, storage, max_ess_capacity) ==
    IF storage < max_ess_capacity
    THEN min(excess_ppa, max_ess_capacity - storage)
    ELSE 0

\* Line 118 forgotten: the energy stored is still counted as excess.
excess_after_charge_kept(excess_ppa, charge) == excess_ppa

\* Line 118: the excess left after the ESS has been charged.
excess_after_charge(excess_ppa, charge) == excess_ppa - charge

\* resold_ppa with the flag ppa_resell not looked at.
resold_ppa_always(excess_ppa, ppa_resell) ==
    IF excess_ppa > 0 THEN excess_ppa ELSE 0

\* Lines 121-124: the energy resold in an excess hour, after charging.
resold_ppa(excess_ppa, ppa_resell) ==
    IF excess_ppa > 0 /\ ppa_resell THEN excess_ppa ELSE 0

\* resell_revenue with ppa_resellrate taken as a premium on the PPA price.
resell_revenue_premium(excess_ppa, ppa_price, ppa_resellrate) ==
    excess_ppa * ppa_price + Scale(ppa_resellrate, excess_ppa * ppa_price)

\* resell_revenue with the factor ppa_resellrate forgotten.
resell_revenue_norate(excess_ppa, ppa_price, ppa_resellrate) ==
    excess_ppa * ppa_price

\* Line 122.
resell_revenue(excess_ppa, ppa_price, ppa_resellrate) ==
    Scale(ppa_resellrate, excess_ppa * ppa_price)

\* ess_discharge with the storage never looked at: the ESS serves any load.
ess_discharge_any(remaining_load, storage) == remaining_load

\* ess_discharge with the min of line 133 dropped: the ESS is emptied.
ess_discharge_nomin(remaining_load, storage) ==
    IF storage > 0 THEN storage ELSE 0

\* Lines 132-133: the energy taken from the ESS in a deficit hour.
ess_discharge(remaining_load, storage) ==
    IF storage > 0 THEN min(remaining_load, storage) ELSE 0

\* Line 136 with the sign wrong: the discharge is added to the load.
remaining_after_discharge_added(remaining_load, discharge) ==
    remaining_load + discharge

\* Line 136 forgotten: the discharge is not taken off the remaining load.
remaining_after_discharge_kept(remaining_load, discharge) == remaining_load

\* Line 136: the load left for the grid after the ESS discharge.
remaining_after_discharge(remaining_load, discharge) == remaining_load - discharge

\* discharge_cost with the factor ppa_price forgotten.
discharge_cost_noprice(discharge, ppa_price, ess_price) ==
    Scale(ess_price, discharge)

\* Line 135.
discharge_cost(discharge, ppa_price, ess_price) ==
    Scale(ess_price, discharge * ppa_price)

\* peak_update with the max of line 142 dropped: the last purchase wins.
peak_update_last(peak, grid_demand_kw) ==
    IF grid_demand_kw > 0 THEN grid_demand_kw ELSE peak

\* Lines 139-142: the peak after a grid purchase of grid_demand_kw.
peak_update(peak, grid_demand_kw) ==
    IF grid_demand_kw > 0 THEN max(peak, grid_demand_kw) ELSE peak

\* Lines 60-76: the locals at the start of the loop.
InitLocals ==
    [ppa_cost |-> 0, grid_energy_cost |-> 0, ess_cost |-> 0,
     ess_storage |-> 0, peak_grid_demand_kw |-> 0,
     total_ppa_purchased |-> 0, total_ppa_excess |-> 0,
     total_ppa_resold |-> 0, total_load_met_by_ppa |-> 0]

\* Lines 79-142: one iteration of the loop, for hour h (1-based) of the
\* series of a, from the locals s.  Returns the new locals (field s) and the
\* quantities of the hour (field row).
HourStep(a, s, h) ==
    LET hour_load == load_kwh(a, h)
        hour_grid_rate == a.rate[h]
        hour_ppa_gen == ppa_generation_kwh(a, h)
        mandatory == mandatory_ppa(hour_ppa_gen, a.ppa_mintake)
        optional == optional_ppa_purchased(hour_load, hour_grid_rate,
                                           hour_ppa_gen, mandatory, a.ppa_price)
        total_ppa_this_hour == mandatory + optional
        ppa_used_for_load == min(total_ppa_this_hour, hour_load)
        remaining_load == hour_load - total_ppa_this_hour
        excess == remaining_load <= 0
        \* excess branch, lines 110-127
        excess_ppa == abs(remaining_load)
        charge == ess_charge(excess_ppa, s.ess_storage, a.ess_capacity)
        resold == resold_ppa(excess_after_charge(excess_ppa, charge),
                             a.ppa_resell)
        revenue == resell_revenue(resold, a.ppa_price, a.ppa_resellrate)
        \* deficit branch, lines 130-142
        discharge == ess_discharge(remaining_load, s.ess_storage)
        left == remaining_after_discharge(remaining_load, discharge)
        grid == IF left > 0 THEN left ELSE 0
    IN  IF excess
        THEN [s |-> [s EXCEPT
                  !.ppa_cost = @ + total_ppa_this_hour * a.ppa_price - revenue,
                  !.total_ppa_purchased = @ + total_ppa_this_hour,
                  !.total_load_met_by_ppa = @ + ppa_used_for_load,
                  !.total_ppa_excess = @ + excess_ppa,
                  !.ess_storage = @ + charge,
                  !.total_ppa_resold = @ + resold],
              row |-> [branch |-> "excess", hour_load |-> hour_load,
                       hour_grid_rate |-> hour_grid_rate,
                       hour_ppa_gen |-> hour_ppa_gen,
                       mandatory_ppa |-> mandatory,
                       optional_ppa_purchased |-> optional,
                       total_ppa_this_hour |-> total_ppa_this_hour,
                       excess_ppa |-> excess_ppa,
                       ess_charge |-> charge, resold |-> resold,
                       ess_discharge |-> 0, grid_purchase |-> 0]]
        ELSE [s |-> [s EXCEPT
                  !.ppa_cost = @ + total_ppa_this_hour * a.ppa_price,
                  !.total_ppa_purchased = @ + total_ppa_this_hour,
                  !.total_load_met_by_ppa = @ + ppa_used_for_load,
                  !.ess_storage = @ - discharge,
                  !.ess_cost = @ + discharge_cost(discharge, a.ppa_price, a.ess_price),
                  !.grid_energy_cost = @ + grid * hour_grid_rate,
                  !.peak_grid_demand_kw = peak_update(@, grid)],
              row |-> [branch |-> "deficit", hour_load |-> hour_load,
                       hour_grid_rate |-> hour_grid_rate,
                       hour_ppa_gen |-> hour_ppa_gen,
                       mandatory_ppa |-> mandatory,
                       optional_ppa_purchased |-> optional,
                       total_ppa_this_hour |-> total_ppa_this_hour,
                       excess_ppa |-> 0,
                       ess_charge |-> 0, resold |-> 0,
                       ess_discharge |-> discharge, grid_purchase |-> grid]]

\* ReturnValue with the demand charge applied for every hour of the series.
ReturnValue_perhour(a, s) ==
    LET demand == s.peak_grid_demand_kw * a.contract_fee * Len(a.load)
        grid_total == s.grid_energy_cost + demand
    IN  [total_cost |-> s.ppa_cost + grid_total + s.ess_cost,
         ppa_cost |-> s.ppa_cost,
         grid_total_cost |-> grid_total,
         grid_demand_cost |-> demand,
         ess_cost |-> s.ess_cost]

\* Lines 144-149 and 167: the returned tuple, from the locals after the loop.
ReturnValue(a, s) ==
    LET demand == s.peak_grid_demand_kw * a.contract_fee
        grid_total == s.grid_energy_cost + demand
    IN  [total_cost |-> s.ppa_cost + grid_total + s.ess_cost,
         ppa_cost |-> s.ppa_cost,
         grid_total_cost |-> grid_total,
         grid_demand_cost |-> demand,
         ess_cost |-> s.ess_cost]

\* Lines 78-142: the locals after the first k hours of the series of a.
RECURSIVE LoopLocals(_, _)
LoopLocals(a, k) ==
    IF k = 0 THEN InitLocals ELSE HourStep(a, LoopLocals(a, k - 1), k).s

\* Lines 79-142: the quantities of hour h of the run on the arguments a.
LedgerRow(a, h) == HourStep(a, LoopLocals(a, h - 1), h).row

\* Lines 5-167: the function, from its arguments to the returned tuple.
calculate_ppa_cost(a) == ReturnValue(a, LoopLocals(a, Len(a.load)))

----------------------------------------------------------------------------
\* The locals of the run, as a record.
Locals ==
    [ppa_cost |-> ppa_cost, grid_energy_cost |-> grid_energy_cost,
     ess_cost |-> ess_cost, ess_storage |-> ess_storage,
     peak_grid_demand_kw |-> peak_grid_demand_kw,
     total_ppa_purchased |-> total_ppa_purchased,
     total_ppa_excess |-> total_ppa_excess,
     total_ppa_resold |-> total_ppa_resold,
     total_load_met_by_ppa |-> total_load_met_by_ppa]

SetLocals(s) ==
    /\ ppa_cost' = s.ppa_cost
    /\ grid_energy_cost' = s.grid_energy_cost
    /\ ess_cost' = s.ess_cost
    /\ ess_storage' = s.ess_storage
    /\ peak_grid_demand_kw' = s.peak_grid_demand_kw
    /\ total_ppa_purchased' = s.total_ppa_purchased
    /\ total_ppa_excess' = s.total_ppa_excess
    /\ total_ppa_resold' = s.total_ppa_resold
    /\ total_load_met_by_ppa' = s.total_load_met_by_ppa

\* The arguments of a call: three series of k hours and the parameters.
ArgumentsOf(k, policy) ==
    [load : [1..k -> LoadLevels],
     generation : [1..k -> SolarLevels],
     rate : [1..k -> GridRates],
     load_capacity_mw : LoadCapacities,
     ppa_coverage : Coverages,
     contract_fee : ContractFees,
     ppa_price : PpaPrices,
     ppa_mintake : Mintakes,
     ppa_resell : {policy[1]},
     ppa_resellrate : {policy[2]},
     ess_price : EssPrices,
     ess_capacity : EssCapacities]

Arguments ==
    UNION {ArgumentsOf(k, policy) : k \in 0..MaxHours, policy \in ResalePolicies}

\* No analysis run: the engine is called directly on its arguments.
AnalysisIdle ==
    /\ config = <<>> /\ data = <<>>
    /\ mpc = "idle"
    /\ is_valid = FALSE /\ errors = <<>>
    /\ ppa_percent = 0
    /\ results_summary = <<>> /\ results_ess = <<>>
    /\ ess_capacity_kwh = 0
    /\ calls = <<>>
    /\ include_carbon = TRUE
    /\ optimal = <<>> /\ optimal_ess = <<>>

Init ==
    /\ args \in Arguments
    /\ pc = "loop"
    /\ hour = 0
    /\ ppa_cost = 0 /\ grid_energy_cost = 0 /\ ess_cost = 0
    /\ ess_storage = 0
    /\ peak_grid_demand_kw = 0
    /\ total_ppa_purchased = 0 /\ total_ppa_excess = 0
    /\ total_ppa_resold = 0 /\ total_load_met_by_ppa = 0
    /\ ledger = <<>>
    /\ grid_demand_cost = 0 /\ grid_total_cost = 0 /\ total_cost = 0
    /\ runs = 1
    /\ returned = <<>>
    /\ frames = <<>>
    /\ AnalysisIdle

\* Lines 78-142: one iteration of `for hour in range(len(load_kwh))`.
HourLoop ==
    /\ pc = "loop"
    /\ hour < Len(args.load)
    /\ hour < Len(args.rate) /\ hour < Len(args.generation)
    /\ LET n == HourStep(args, Locals, hour + 1)
       IN  /\ SetLocals(n.s)
           /\ ledger' = Append(ledger, n.row)
    /\ hour' = hour + 1
    /\ UNCHANGED <<args, pc, results, runs, returned, frames, analysis>>

\* Lines 144-167: the loop is over; the costs are totalled and returned.
Return ==
    /\ pc = "loop"
    /\ hour = Len(args.load)
    /\ LET r == ReturnValue(args, Locals)
       IN  /\ grid_demand_cost' = r.grid_demand_cost
           /\ grid_total_cost' = r.grid_total_cost
           /\ total_cost' = r.total_cost
           /\ returned' = Append(returned, r)
    /\ pc' = "done"
    /\ UNCHANGED <<args, hour, locals, ledger, runs, frames, analysis>>

\* Call with ess_storage kept from the run before (a state outside the call).
CallStale ==
    /\ pc = "done"
    /\ runs < MaxRuns
    /\ runs' = runs + 1
    /\ pc' = "loop"
    /\ hour' = 0
    /\ SetLocals([InitLocals EXCEPT !.ess_storage = ess_storage])
    /\ ledger' = <<>>
    /\ UNCHANGED <<args, results, returned, frames, analysis>>

\* Lines 46-76: the function is called again on the same arguments.
Call ==
    /\ pc = "done"
    /\ runs < MaxRuns
    /\ runs' = runs + 1
    /\ pc' = "loop"
    /\ hour' = 0
    /\ SetLocals(InitLocals)
    /\ ledger' = <<>>
    /\ UNCHANGED <<args, results, returned, frames, analysis>>

\* Lines 80-81: grid_rate.iloc[hour] or ppa_generation_kwh.iloc[hour] on a
\* series that has no row `hour` raises IndexError out of the function.
RaiseIndexError ==
    /\ pc = "loop"
    /\ hour < Len(args.load)
    /\ hour >= Len(args.rate) \/ hour >= Len(args.generation)
    /\ pc' = "IndexError"
    /\ UNCHANGED <<args, hour, locals, ledger, results, runs, returned, frames, analysis>>

Next == HourLoop \/ Return

Spec == Init /\ [][Next]_vars

\* The calls of SpecRepeat are made on arguments with PPA generation and an
\* ESS, where a run has state to carry from hour to hour.
InitRepeat == Init /\ args.ess_capacity > 0 /\ args.ppa_coverage > 0

NextRepeat == HourLoop \/ Return \/ Call

SpecRepeat == InitRepeat /\ [][NextRepeat]_vars

\* Calls on series of any lengths: the function takes three separate data
\* frames and nothing in lines 46-58 relates their lengths.
MisalignedArguments ==
    UNION {[load : [1..kl -> LoadLevels],
            generation : [1..kg -> SolarLevels],
            rate : [1..kr -> GridRates],
            load_capacity_mw : LoadCapacities,
            ppa_coverage : {100},
            contract_fee : ContractFees,
            ppa_price : PpaPrices,
            ppa_mintake : {50, 100},
            ppa_resell : {TRUE},
            ppa_resellrate : {50},
            ess_price : EssPrices,
            ess_capacity : EssCapacities] :
           kl \in 0..MaxHours, kg \in 0..MaxHours, kr \in 0..MaxHours}

InitMisaligned ==
    /\ args \in MisalignedArguments
    /\ pc = "loop"
    /\ hour = 0
    /\ ppa_cost = 0 /\ grid_energy_cost = 0 /\ ess_cost = 0
    /\ ess_storage = 0
    /\ peak_grid_demand_kw = 0
    /\ total_ppa_purchased = 0 /\ total_ppa_excess = 0
    /\ total_ppa_resold = 0 /\ total_load_met_by_ppa = 0
    /\ ledger = <<>>
    /\ grid_demand_cost = 0 /\ grid_total_cost = 0 /\ total_cost = 0
    /\ runs = 1
    /\ returned = <<>>
    /\ frames = <<>>
    /\ AnalysisIdle

NextMisaligned == HourLoop \/ Return \/ RaiseIndexError

SpecMisaligned == InitMisaligned /\ [][NextMisaligned]_vars

\* Calls with an ESS where a kWh from the ESS (ppa_price * ess_price) is
\* cheaper than the grid in some hours and dearer in others.
DischargeGridRates == {50, 200}         \* grid_df['rate'], KRW/kWh
DischargeEssPrices == {50, 150}         \* ess_price, percent of ppa_price

DischargeArguments ==
    UNION {[load : [1..k -> LoadLevels],
            generation : [1..k -> SolarLevels],
            rate : [1..k -> DischargeGridRates],
            load_capacity_mw : LoadCapacities,
            ppa_coverage : {50, 100},
            contract_fee : ContractFees,
            ppa_price : PpaPrices,
            ppa_mintake : {50, 100},
            ppa_resell : {FALSE},
            ppa_resellrate : {50},
            ess_price : DischargeEssPrices,
            ess_capacity : {500}] : k \in 0..MaxHours}

InitDischarge ==
    /\ args \in DischargeArguments
    /\ pc = "loop"
    /\ hour = 0
    /\ ppa_cost = 0 /\ grid_energy_cost = 0 /\ ess_cost = 0
    /\ ess_storage = 0
    /\ peak_grid_demand_kw = 0
    /\ total_ppa_purchased = 0 /\ total_ppa_excess = 0
    /\ total_ppa_resold = 0 /\ total_load_met_by_ppa = 0
    /\ ledger = <<>>
    /\ grid_demand_cost = 0 /\ grid_total_cost = 0 /\ total_cost = 0
    /\ runs = 1
    /\ returned = <<>>
    /\ frames = <<>>
    /\ AnalysisIdle

NextDischarge == HourLoop \/ Return

SpecDischarge == InitDischarge /\ [][NextDischarge]_vars

----------------------------------------------------------------------------
\* The hourly tables of libs/data_processor.py.

\* x / y on numpy float64 values: a quotient by zero is nan (0 / 0) or inf,
\* with a warning and no exception; a finite quotient is kept as the exact
\* fraction num / den.
truediv(x, y) ==
    IF y # 0 THEN [kind |-> "finite", num |-> x, den |-> y]
    ELSE IF x = 0 THEN [kind |-> "nan", num |-> 0, den |-> 0]
    ELSE [kind |-> "inf", num |-> x, den |-> 0]

\* Series.fillna(v): nan becomes v, every other value (inf too) is kept.
fillna(q, v) ==
    IF q.kind = "nan" THEN [kind |-> "finite", num |-> v, den |-> 1] ELSE q

\* data_processor.py lines 128-193: the scenario columns of hour h, for the
\* coverage a.ppa_coverage and the parameters of a.
generate_scenario_columns(a, h) ==
    LET \* lines 88, 131-135: load_mw * 1000 and ppa_generation_mw * 1000
        load_kwh_h == Scale(a.load[h], a.load_capacity_mw * KwhPerMw)
        ppa_generation_kwh_h ==
            Scale(a.ppa_coverage,
                  Scale(a.generation[h], a.load_capacity_mw * KwhPerMw))
        mandatory == Scale(a.ppa_mintake, ppa_generation_kwh_h)
        optional_ppa_available == ppa_generation_kwh_h - mandatory
        remaining_load_after_mandatory == max(load_kwh_h - mandatory, 0)
        can_buy == a.ppa_price < a.rate[h] /\ remaining_load_after_mandatory > 0
        optional ==
            IF a.ppa_mintake < Percent /\ can_buy
            THEN min(optional_ppa_available, remaining_load_after_mandatory)
            ELSE 0
        ppa_purchase == mandatory + optional
        remaining_load == load_kwh_h - ppa_purchase
        ppa_excess == max(-remaining_load, 0)
        grid_purchase == max(remaining_load, 0)
        grid_cost == grid_purchase * a.rate[h]
        revenue ==
            IF a.ppa_resell
            THEN Scale(a.ppa_resellrate, ppa_excess * a.ppa_price)
            ELSE 0
        cost == ppa_purchase * a.ppa_price - revenue
    IN  [load_kwh |-> load_kwh_h,
         ppa_gen |-> ppa_generation_kwh_h,
         mandatory_ppa |-> mandatory,
         optional_ppa |-> optional,
         ppa_purchase |-> ppa_purchase,
         ppa_cost |-> cost,
         ppa_excess |-> ppa_excess,
         grid_purchase |-> grid_purchase,
         grid_cost |-> grid_cost,
         resell_revenue |-> revenue,
         total_cost |-> cost + grid_cost]

\* data_processor.py lines 224-271: the long-format record of hour h under
\* the scenario of a (the calendar fields are left out).
create_long_format_dataframe(a, h) ==
    LET c == generate_scenario_columns(a, h)
    IN  [ppa_coverage_pct |-> a.ppa_coverage,
         Load_Demand_kWh |-> c.load_kwh,
         PPA_Generation_kWh |-> c.ppa_gen,
         PPA_Mandatory_kWh |-> c.mandatory_ppa,
         PPA_Optional_kWh |-> c.optional_ppa,
         PPA_Purchase_kWh |-> c.ppa_purchase,
         PPA_Excess_kWh |-> c.ppa_excess,
         Grid_Purchase_kWh |-> c.grid_purchase,
         Grid_Rate_KRW_per_kWh |-> a.rate[h],
         PPA_Cost_KRW |-> c.ppa_cost,
         Grid_Cost_KRW |-> c.grid_cost,
         Resell_Revenue_KRW |-> c.resell_revenue,
         Total_Cost_KRW |-> c.total_cost,
         Load_Coverage_by_PPA_pct |->
             fillna(truediv(c.ppa_purchase * 100, c.load_kwh), 0),
         Excess_to_Generation_pct |->
             fillna(truediv(c.ppa_excess * 100, c.ppa_gen), 0),
         Cost_Savings_vs_Grid_Only |-> c.load_kwh * a.rate[h] - c.total_cost,
         Cost_per_kWh_KRW |-> fillna(truediv(c.total_cost, c.load_kwh), 0)]

----------------------------------------------------------------------------
\* Sum and maximum of f[1..n]; the maximum of no value is 0.
RECURSIVE SumTo(_, _)
SumTo(f, n) == IF n = 0 THEN 0 ELSE f[n] + SumTo(f, n - 1)
RECURSIVE MaxTo(_, _)
MaxTo(f, n) == IF n = 0 THEN 0 ELSE max(f[n], MaxTo(f, n - 1))

Hours == 1..Len(ledger)
NumHours == Len(args.load)

\* No division of the model rounds: the model's numbers are the numbers the
\* code computes in exact arithmetic.
ScaleExact ==
    /\ \A h \in 1..NumHours :
        LET base == args.load_capacity_mw * KwhPerMw
        IN  /\ (args.load[h] * base) % Percent = 0
            /\ (args.generation[h] * base) % Percent = 0
            /\ (args.ppa_coverage * Scale(args.generation[h], base)) % Percent = 0
            /\ (args.ppa_mintake * ppa_generation_kwh(args, h)) % Percent = 0
    /\ \A h \in Hours :
        /\ (args.ppa_resellrate * ledger[h].resold * args.ppa_price) % Percent = 0
        /\ (args.ess_price * ledger[h].ess_discharge * args.ppa_price) % Percent = 0

----------------------------------------------------------------------------
\* The analysis run around the engine: validate_config of libs/config.py, the
\* sweeps and find_optimal_scenario of libs/analyzer.py, called in this order
\* by the run of main_gui.py (and by main() of main_modular.py).  Fractions of
\* the configuration are whole percents, as in the engine.

\* Longest result list handed to find_optimal_scenario on its own.
MaxResults == 3

\* The values the configuration is drawn from; each rule of validate_config
\* has a value that violates it.
RangeStarts == {-50, 0, 50}             \* ppa_range_start, percent
RangeEnds == {25, 100}                  \* ppa_range_end, percent
RangeSteps == {0, 50}                   \* ppa_range_step, percent
ConfigPpaPrices == {0, 170}             \* ppa_price
ConfigMintakes == {50, 100, 150}        \* ppa_mintake, percent
ConfigResale == {<<FALSE, 50>>, <<TRUE, 50>>, <<TRUE, 150>>}
\* <<ess_include, ess_capacity>>, the capacity in percent of the solar peak
ConfigEss == {<<FALSE, 0>>, <<TRUE, 50>>, <<TRUE, -50>>}
ConfigEssPrices == {-50, 50}            \* ess_price, percent of ppa_price
ConfigLoadCapacities == {0, 1}          \* load_capacity_mw
StartDates == {"2024-01-01", "01/01/2024"}
EndDates == {"2024-12-31", "2024-13-45"}
CarbonPrices == {-8000, 0, 8000}        \* carbon_price, KRW per tonne

\* The strings datetime.strptime(s, '%Y-%m-%d') accepts, among those above.
WellFormedDates == {"2024-01-01", "2024-12-31"}

ConfigsOf(resale, ess) ==
    [ppa_range_start : RangeStarts,
     ppa_range_end : RangeEnds,
     ppa_range_step : RangeSteps,
     ppa_price : ConfigPpaPrices,
     ppa_mintake : ConfigMintakes,
     ppa_resell : {resale[1]},
     ppa_resellrate : {resale[2]},
     ess_include : {ess[1]},
     ess_capacity : {ess[2]},
     ess_price : ConfigEssPrices,
     load_capacity_mw : ConfigLoadCapacities,
     start_date : StartDates,
     end_date : EndDates,
     carbon_price : CarbonPrices]

\* A configuration that has no key 'carbon_price', like DEFAULT_CONFIG of
\* config.py, which main_modular.py runs on.
WithoutCarbonPrice(c) == [k \in DOMAIN c \ {"carbon_price"} |-> c[k]]

Configs ==
    LET full == UNION {ConfigsOf(resale, ess) :
                          resale \in ConfigResale, ess \in ConfigEss}
    IN  full \cup {WithoutCarbonPrice(c) : c \in full}

\* dict.get(key, default).
config_get(c, key, default) == IF key \in DOMAIN c THEN c[key] ELSE default

\* The input series of a run, two hours long: the pattern data (load, solar
\* generation, emission factor in percent of a kg per kWh) and the grid
\* tariff (hourly rate and contract fee).
DataSets ==
    [load : {<<0, 0>>, <<100, 50>>, <<50, 100>>},
     generation : {<<100, 0>>, <<0, 100>>, <<100, 100>>},
     rate : {<<200, 170>>},
     emission : {<<0, 0>>, <<50, 50>>},
     contract_fee : ContractFees]

\* config.py lines 140-179: the rules in the order they are checked, each
\* with its condition of violation and its message.
config_rules(c) ==
    << <<c.ppa_range_start < 0, "ppa_range_start must be >= 0">>,
       <<c.ppa_range_end < c.ppa_range_start,
         "ppa_range_end must be >= ppa_range_start">>,
       <<c.ppa_range_step <= 0, "ppa_range_step must be > 0">>,
       <<c.ppa_price <= 0, "ppa_price must be > 0">>,
       <<~(0 <= c.ppa_mintake /\ c.ppa_mintake <= Percent),
         "ppa_mintake must be between 0 and 1">>,
       <<~(0 <= c.ppa_resellrate /\ c.ppa_resellrate <= Percent),
         "ppa_resellrate must be between 0 and 1">>,
       <<c.ess_capacity < 0, "ess_capacity must be >= 0">>,
       <<c.ess_price < 0, "ess_price must be >= 0">>,
       <<c.load_capacity_mw <= 0, "load_capacity_mw must be > 0">>,
       <<c.start_date \notin WellFormedDates \/ c.end_date \notin WellFormedDates,
         "Dates must be in YYYY-MM-DD format">> >>

\* config_errors with the rule of lines 146-147 left out.
config_errors_norange(c) ==
    LET violated ==
            SelectSeq(config_rules(c),
                      LAMBDA rule :
                          rule[1] /\ rule[2] # "ppa_range_end must be >= ppa_range_start")
    IN  [i \in 1..Len(violated) |-> violated[i][2]]

\* errors.append(...) for every violated rule, in order.
config_errors(c) ==
    LET violated == SelectSeq(config_rules(c), LAMBDA rule : rule[1])
    IN  [i \in 1..Len(violated) |-> violated[i][2]]

\* validate_config stopping at the first violated rule.
validate_config_first(c) ==
    LET e == config_errors(c)
    IN  [is_valid |-> Len(e) = 0,
         errors |-> IF e = <<>> THEN e ELSE <<e[1]>>]

\* config.py lines 126-181.
validate_config(c) ==
    LET e == config_errors(c)
    IN  [is_valid |-> Len(e) = 0, errors |-> e]

\* The range with the stop of line 40 taken as ppa_range_end.
ppa_range_stop_exclusive(c) == c.ppa_range_end

\* analyzer.py lines 39-41 and 126-128: the stop of
\* range(ppa_range_start, ppa_range_end + 1, ppa_range_step).
ppa_range_stop(c) == c.ppa_range_end + 1

\* analyzer.py lines 47-60 and 133-146: the arguments of the engine call for
\* the coverage ppa_percent, ppa_coverage = ppa_percent / 100.
EngineArguments(c, d, percent, capacity_kwh) ==
    [load |-> d.load,
     generation |-> d.generation,
     rate |-> d.rate,
     load_capacity_mw |-> c.load_capacity_mw,
     ppa_coverage |-> percent,
     contract_fee |-> d.contract_fee,
     ppa_price |-> c.ppa_price,
     ppa_mintake |-> c.ppa_mintake,
     ppa_resell |-> c.ppa_resell,
     ppa_resellrate |-> c.ppa_resellrate,
     ess_price |-> c.ess_price,
     ess_capacity |-> capacity_kwh]

\* The sixth value the sweeps unpack from the engine call, in kg: the grid
\* purchase of every hour times the emission factor of the hour.
total_emissions(a, emission) ==
    SumTo([h \in 1..Len(a.load) |->
            Scale(emission[h], LedgerRow(a, h).grid_purchase)], Len(a.load))

\* carbon_cost with the conversion from kg to tonnes forgotten.
carbon_cost_per_kg(emissions, carbon_price) == emissions * carbon_price

\* analyzer.py lines 64 and 150: the emissions are kg, the price is per tonne.
carbon_cost(emissions, carbon_price) == (emissions * carbon_price) \div 1000

\* analyzer.py lines 62-86: the result dictionary of one scenario, from the
\* tuple r the engine returned and the emissions.
result_record(percent, r, emissions, carbon_price, total_electricity_kwh) ==
    LET cost_of_carbon == carbon_cost(emissions, carbon_price)
        total_cost_with_carbon == r.total_cost + cost_of_carbon
    IN  [ppa_percent |-> percent,
         total_cost |-> r.total_cost,
         ppa_cost |-> r.ppa_cost,
         grid_cost |-> r.grid_total_cost,
         grid_demand_cost |-> r.grid_demand_cost,
         ess_cost |-> r.ess_cost,
         carbon_cost |-> cost_of_carbon,
         total_cost_with_carbon |-> total_cost_with_carbon,
         total_electricity_kwh |-> total_electricity_kwh,
         total_cost_per_kwh |-> truediv(r.total_cost, total_electricity_kwh),
         ppa_cost_per_kwh |-> truediv(r.ppa_cost, total_electricity_kwh),
         grid_energy_cost_per_kwh |->
             truediv(r.grid_total_cost - r.grid_demand_cost, total_electricity_kwh),
         grid_demand_cost_per_kwh |->
             truediv(r.grid_demand_cost, total_electricity_kwh),
         ess_cost_per_kwh |-> truediv(r.ess_cost, total_electricity_kwh),
         carbon_cost_per_kwh |-> truediv(cost_of_carbon, total_electricity_kwh),
         total_cost_with_carbon_per_kwh |->
             truediv(total_cost_with_carbon, total_electricity_kwh),
         total_emissions |-> emissions,
         emissions_per_kwh |-> truediv(emissions, total_electricity_kwh)]

\* analyzer.py lines 37 and 44-86: one iteration of a sweep.
scenario_result(c, d, percent, capacity_kwh) ==
    LET a == EngineArguments(c, d, percent, capacity_kwh)
        total_electricity_kwh ==
            Scale(SumTo(d.load, Len(d.load)), c.load_capacity_mw * KwhPerMw)
    IN  result_record(percent, calculate_ppa_cost(a),
                      total_emissions(a, d.emission),
                      config_get(c, "carbon_price", 0), total_electricity_kwh)

\* Python's min(range(len(keys)), key=...): a scan that replaces the best
\* index only by one with a strictly smaller key.
RECURSIVE min_scan(_, _)
min_scan(keys, n) ==
    IF n = 1 THEN 1
    ELSE LET best == min_scan(keys, n - 1)
         IN  IF keys[n] < keys[best] THEN n ELSE best

\* The same scan replacing the best index on an equal key too.
RECURSIVE min_scan_last(_, _)
min_scan_last(keys, n) ==
    IF n = 1 THEN 1
    ELSE LET best == min_scan_last(keys, n - 1)
         IN  IF keys[n] <= keys[best] THEN n ELSE best

\* optimal_idx with the last of the equal minima.
optimal_idx_last(keys) == min_scan_last(keys, Len(keys))

\* analyzer.py lines 199 and 204 (main.py line 232).
optimal_idx(keys) == min_scan(keys, Len(keys))

\* analyzer.py lines 194-208, for a list that is not empty.
find_optimal_scenario(list, carbon) ==
    LET has_carbon == list[1].carbon_cost > 0
    IN  IF carbon /\ has_carbon
        THEN LET i == optimal_idx([j \in 1..Len(list) |->
                                      list[j].total_cost_with_carbon])
             IN  <<list[i].ppa_percent, list[i].total_cost_with_carbon>>
        ELSE LET i == optimal_idx([j \in 1..Len(list) |-> list[j].total_cost])
             IN  <<list[i].ppa_percent, list[i].total_cost>>

\* No engine call in progress whose hours are followed.
EngineIdle ==
    /\ args = <<>>
    /\ pc = "idle"
    /\ hour = 0
    /\ ppa_cost = 0 /\ grid_energy_cost = 0 /\ ess_cost = 0
    /\ ess_storage = 0
    /\ peak_grid_demand_kw = 0
    /\ total_ppa_purchased = 0 /\ total_ppa_excess = 0
    /\ total_ppa_resold = 0 /\ total_load_met_by_ppa = 0
    /\ ledger = <<>>
    /\ grid_demand_cost = 0 /\ grid_total_cost = 0 /\ total_cost = 0
    /\ runs = 0
    /\ returned = <<>>
    /\ frames = <<>>

\* The run starts with a configuration and the loaded series.  The series
\* vary for the configurations that pass the validation.
InitAnalysis ==
    /\ EngineIdle
    /\ config \in Configs
    /\ data \in DataSets
    /\ ~validate_config(config).is_valid =>
          data = [load |-> <<100, 50>>, generation |-> <<100, 0>>,
                  rate |-> <<200, 170>>, emission |-> <<0, 0>>,
                  contract_fee |-> 10000]
    /\ mpc = "validate"
    /\ is_valid = FALSE /\ errors = <<>>
    /\ ppa_percent = 0
    /\ results_summary = <<>> /\ results_ess = <<>>
    /\ ess_capacity_kwh = 0
    /\ calls = <<>>
    /\ include_carbon = TRUE
    /\ optimal = <<>> /\ optimal_ess = <<>>

\* main_gui.py lines 609-615 (main_modular.py lines 52-58): the configuration
\* is validated; the run returns when it is not valid.
Validate ==
    /\ mpc = "validate"
    /\ LET v == validate_config(config)
       IN  /\ is_valid' = v.is_valid
           /\ errors' = v.errors
           /\ mpc' = IF v.is_valid THEN "scenario_call" ELSE "aborted"
    /\ UNCHANGED <<engine, config, data, ppa_percent, results_summary,
                   results_ess, ess_capacity_kwh, calls, include_carbon,
                   optimal, optimal_ess>>

\* analyzer.py lines 36-41: run_scenario_analysis is entered.
ScenarioCall ==
    /\ mpc = "scenario_call"
    /\ results_summary' = <<>>
    /\ ppa_percent' = config.ppa_range_start
    /\ mpc' = "scenario"
    /\ UNCHANGED <<engine, config, data, is_valid, errors, results_ess,
                   ess_capacity_kwh, calls, include_carbon, optimal, optimal_ess>>

\* analyzer.py lines 43-86: one iteration of `for ppa_percent in ppa_range`,
\* with its call of the engine (ess_capacity = 0).
ScenarioLoop ==
    /\ mpc = "scenario"
    /\ ppa_percent < ppa_range_stop(config)
    /\ calls' = Append(calls, [ppa_coverage |-> ppa_percent, ess_capacity |-> 0])
    /\ results_summary' =
          Append(results_summary, scenario_result(config, data, ppa_percent, 0))
    /\ ppa_percent' = ppa_percent + config.ppa_range_step
    /\ UNCHANGED <<engine, config, data, mpc, is_valid, errors, results_ess,
                   ess_capacity_kwh, include_carbon, optimal, optimal_ess>>

\* analyzer.py line 88: the range is exhausted, results_summary is returned.
ScenarioReturn ==
    /\ mpc = "scenario"
    /\ ppa_percent >= ppa_range_stop(config)
    /\ mpc' = "optimal"
    /\ UNCHANGED <<engine, config, data, is_valid, errors, ppa_percent,
                   results_summary, results_ess, ess_capacity_kwh, calls,
                   include_carbon, optimal, optimal_ess>>

\* main_gui.py line 640: find_optimal_scenario on results_summary; min() of an
\* empty range raises ValueError.
FindOptimal ==
    /\ mpc = "optimal"
    /\ IF results_summary = <<>>
       THEN mpc' = "ValueError" /\ UNCHANGED optimal
       ELSE /\ optimal' = find_optimal_scenario(results_summary, include_carbon)
            /\ mpc' = IF config.ess_include THEN "ess_call" ELSE "done"
    /\ UNCHANGED <<engine, config, data, is_valid, errors, ppa_percent,
                   results_summary, results_ess, ess_capacity_kwh, calls,
                   include_carbon, optimal_ess>>

\* analyzer.py lines 119-128: run_ess_analysis is entered and computes the ESS
\* capacity from the peak of the solar series.
EssCall ==
    /\ mpc = "ess_call"
    /\ results_ess' = <<>>
    /\ ess_capacity_kwh' =
          Scale(config.ess_capacity,
                Scale(MaxTo(data.generation, Len(data.generation)),
                      config.load_capacity_mw * KwhPerMw))
    /\ ppa_percent' = config.ppa_range_start
    /\ mpc' = "ess"
    /\ UNCHANGED <<engine, config, data, is_valid, errors, results_summary,
                   calls, include_carbon, optimal, optimal_ess>>

\* EssLoop with the ESS sized by the coverage of the scenario.
EssLoopPerCoverage ==
    /\ mpc = "ess"
    /\ ppa_percent < ppa_range_stop(config)
    /\ calls' = Append(calls, [ppa_coverage |-> ppa_percent,
                               ess_capacity |-> Scale(ppa_percent, ess_capacity_kwh)])
    /\ results_ess' =
          Append(results_ess,
                 scenario_result(config, data, ppa_percent,
                                 Scale(ppa_percent, ess_capacity_kwh)))
    /\ ppa_percent' = ppa_percent + config.ppa_range_step
    /\ UNCHANGED <<engine, config, data, mpc, is_valid, errors, results_summary,
                   ess_capacity_kwh, include_carbon, optimal, optimal_ess>>

\* analyzer.py lines 130-172: one iteration of the sweep with ESS.
EssLoop ==
    /\ mpc = "ess"
    /\ ppa_percent < ppa_range_stop(config)
    /\ calls' = Append(calls, [ppa_coverage |-> ppa_percent,
                               ess_capacity |-> ess_capacity_kwh])
    /\ results_ess' =
          Append(results_ess,
                 scenario_result(config, data, ppa_percent, ess_capacity_kwh))
    /\ ppa_percent' = ppa_percent + config.ppa_range_step
    /\ UNCHANGED <<engine, config, data, mpc, is_valid, errors, results_summary,
                   ess_capacity_kwh, include_carbon, optimal, optimal_ess>>

\* analyzer.py line 174.
EssReturn ==
    /\ mpc = "ess"
    /\ ppa_percent >= ppa_range_stop(config)
    /\ mpc' = "optimal_ess"
    /\ UNCHANGED <<engine, config, data, is_valid, errors, ppa_percent,
                   results_summary, results_ess, ess_capacity_kwh, calls,
                   include_carbon, optimal, optimal_ess>>

\* main_gui.py line 662: find_optimal_scenario on results_ess.
FindOptimalEss ==
    /\ mpc = "optimal_ess"
    /\ IF results_ess = <<>>
       THEN mpc' = "ValueError" /\ UNCHANGED optimal_ess
       ELSE /\ optimal_ess' = find_optimal_scenario(results_ess, include_carbon)
            /\ mpc' = "done"
    /\ UNCHANGED <<engine, config, data, is_valid, errors, ppa_percent,
                   results_summary, results_ess, ess_capacity_kwh, calls,
                   include_carbon, optimal>>

NextAnalysis ==
    \/ Validate
    \/ ScenarioCall \/ ScenarioLoop \/ ScenarioReturn \/ FindOptimal
    \/ EssCall \/ EssLoop \/ EssReturn \/ FindOptimalEss

SpecAnalysis == InitAnalysis /\ [][NextAnalysis]_vars

\* The engine calls of the two sweeps as activations of calculate_ppa_cost,
\* each with its own locals (calculator.py lines 60-76 are assignments to
\* local names, and lines 46-58 build new series from the data frames, which
\* are only read).  The activations are entered in any order, for any
\* percentage of the range with or without the ESS, and their hours are taken
\* in any interleaving.

\* Most activations followed at a time.
MaxFrames == 2

SweepConfigs ==
    {c \in Configs :
        /\ validate_config(c).is_valid
        /\ c.ess_include /\ c.ppa_resell
        /\ c.ppa_range_start = 0 /\ c.ppa_range_end = 100
        /\ "carbon_price" \notin DOMAIN c}

InitSweep ==
    /\ EngineIdle
    /\ config \in SweepConfigs
    /\ data \in {d \in DataSets : d.emission = <<0, 0>>}
    /\ mpc = "sweep"
    /\ is_valid = TRUE /\ errors = <<>>
    /\ ppa_percent = 0
    /\ results_summary = <<>> /\ results_ess = <<>>
    /\ ess_capacity_kwh =
          Scale(config.ess_capacity,
                Scale(MaxTo(data.generation, Len(data.generation)),
                      config.load_capacity_mw * KwhPerMw))
    /\ calls = <<>>
    /\ include_carbon = TRUE
    /\ optimal = <<>> /\ optimal_ess = <<>>

\* analyzer.py lines 47-60 and 133-146, calculator.py lines 46-76: the
\* function is entered for one percentage of the range, from run_scenario_
\* analysis (ess_capacity = 0) or from run_ess_analysis.
SweepCall ==
    /\ mpc = "sweep"
    /\ Len(frames) < MaxFrames
    /\ \E percent \in config.ppa_range_start..config.ppa_range_end,
          capacity_kwh \in {0, ess_capacity_kwh} :
          /\ (percent - config.ppa_range_start) % config.ppa_range_step = 0
          /\ percent < ppa_range_stop(config)
          /\ frames' = Append(frames,
                  [args |-> EngineArguments(config, data, percent, capacity_kwh),
                   pc |-> "loop", hour |-> 0, s |-> InitLocals,
                   result |-> <<>>])
    /\ UNCHANGED <<args, pc, hour, locals, ledger, results, runs, returned,
                   analysis>>

\* SweepHourLoop with ess_storage a name shared by all the activations.
SweepHourLoopShared ==
    /\ mpc = "sweep"
    /\ \E i \in 1..Len(frames) :
          /\ frames[i].pc = "loop"
          /\ frames[i].hour < Len(frames[i].args.load)
          /\ LET f == frames[i]
                 n == HourStep(f.args, f.s, f.hour + 1)
             IN  frames' =
                     [j \in 1..Len(frames) |->
                         IF j = i
                         THEN [f EXCEPT !.s = n.s, !.hour = @ + 1]
                         ELSE [frames[j] EXCEPT !.s.ess_storage = n.s.ess_storage]]
    /\ UNCHANGED <<args, pc, hour, locals, ledger, results, runs, returned,
                   analysis>>

\* calculator.py lines 78-142: one activation runs one iteration of its loop.
SweepHourLoop ==
    /\ mpc = "sweep"
    /\ \E i \in 1..Len(frames) :
          /\ frames[i].pc = "loop"
          /\ frames[i].hour < Len(frames[i].args.load)
          /\ LET f == frames[i]
                 n == HourStep(f.args, f.s, f.hour + 1)
             IN  frames' = [frames EXCEPT ![i] = [f EXCEPT !.s = n.s, !.hour = @ + 1]]
    /\ UNCHANGED <<args, pc, hour, locals, ledger, results, runs, returned,
                   analysis>>

\* calculator.py lines 144-167: one activation returns its tuple.
SweepReturn ==
    /\ mpc = "sweep"
    /\ \E i \in 1..Len(frames) :
          /\ frames[i].pc = "loop"
          /\ frames[i].hour = Len(frames[i].args.load)
          /\ LET f == frames[i]
             IN  frames' = [frames EXCEPT ![i] =
                     [f EXCEPT !.pc = "done",
                               !.result = ReturnValue(f.args, f.s)]]
    /\ UNCHANGED <<args, pc, hour, locals, ledger, results, runs, returned,
                   analysis>>

NextSweep == SweepCall \/ SweepHourLoop \/ SweepReturn

SpecSweep == InitSweep /\ [][NextSweep]_vars

\* find_optimal_scenario on its own, on any list of results: the costs and
\* the emissions of the results are drawn, the coverages ascend by 50.
ResultCosts == {90000, 100000}
ResultEmissions == {0, 5000}

ResultLists ==
    UNION {[1..n -> ResultCosts \X ResultEmissions] : n \in 0..MaxResults}

InitOptimal ==
    /\ EngineIdle
    /\ config \in [carbon_price : CarbonPrices, ess_include : {FALSE}]
    /\ data = <<>>
    /\ mpc = "optimal"
    /\ is_valid = TRUE /\ errors = <<>>
    /\ ppa_percent = 0
    /\ \E list \in ResultLists :
          results_summary =
              [i \in 1..Len(list) |->
                  result_record((i - 1) * 50,
                                [total_cost |-> list[i][1], ppa_cost |-> list[i][1],
                                 grid_total_cost |-> 0, grid_demand_cost |-> 0,
                                 ess_cost |-> 0],
                                list[i][2], config.carbon_price, 1000)]
    /\ results_ess = <<>>
    /\ ess_capacity_kwh = 0
    /\ calls = <<>>
    /\ include_carbon \in BOOLEAN
    /\ optimal = <<>> /\ optimal_ess = <<>>

NextOptimal == FindOptimal

SpecOptimal == InitOptimal /\ [][NextOptimal]_vars

\* No division of the analysis run rounds either: in every engine call made,
\* in the emissions and the carbon cost, and in the ESS capacity.
AnalysisExact ==
    /\ \A i \in 1..Len(calls) :
        LET a == EngineArguments(config, data, calls[i].ppa_coverage,
                                 calls[i].ess_capacity)
            base == a.load_capacity_mw * KwhPerMw
        IN  /\ \A h \in 1..Len(a.load) :
                LET r == LedgerRow(a, h)
                IN  /\ (a.load[h] * base) % Percent = 0
                    /\ (a.generation[h] * base) % Percent = 0
                    /\ (a.ppa_coverage * Scale(a.generation[h], base)) % Percent = 0
                    /\ (a.ppa_mintake * r.hour_ppa_gen) % Percent = 0
                    /\ (a.ppa_resellrate * r.resold * a.ppa_price) % Percent = 0
                    /\ (a.ess_price * r.ess_discharge * a.ppa_price) % Percent = 0
                    /\ (data.emission[h] * r.grid_purchase) % Percent = 0
            /\ (total_emissions(a, data.emission)
                   * config_get(config, "carbon_price", 0)) % 1000 = 0
    /\ mpc \in {"ess", "optimal_ess"} =>
          /\ (MaxTo(data.generation, Len(data.generation))
                 * config.load_capacity_mw * KwhPerMw) % Percent = 0
          /\ (config.ess_capacity
                 * Scale(MaxTo(data.generation, Len(data.generation)),
                         config.load_capacity_mw * KwhPerMw)) % Percent = 0

----------------------------------------------------------------------------
\* C1: in every state of a run, before and after every hourly update, the
\* ESS state of charge is at least 0 and at most ess_capacity.
C1_EssBound == 0 <= ess_storage /\ ess_storage <= args.ess_capacity

\* An hour with more excess than headroom has filled the ESS to capacity.
C1_Witness ==
    /\ hour = 2
    /\ ledger[2].branch = "excess"
    /\ ledger[2].ess_charge > 0
    /\ ledger[2].excess_ppa > ledger[2].ess_charge
    /\ ess_storage = args.ess_capacity

\* C2: peak_grid_demand_kw never decreases from one state of a run to the
\* next, and when the run has returned it is the maximum of the hourly grid
\* purchases (0 when no hour bought from the grid).
GridPurchases == [h \in Hours |-> ledger[h].grid_purchase]

C2_PeakMonotone ==
    [][/\ peak_grid_demand_kw' >= peak_grid_demand_kw
       /\ pc' = "done" =>
            peak_grid_demand_kw' = MaxTo(GridPurchases', Len(ledger'))]_vars

\* The peak hour is followed by an hour with a smaller grid purchase.
C2_Witness ==
    /\ pc = "done"
    /\ Len(ledger) = 2
    /\ ledger[2].grid_purchase > 0
    /\ ledger[1].grid_purchase > ledger[2].grid_purchase
    /\ peak_grid_demand_kw = ledger[1].grid_purchase

\* C3: in every hour PPA purchase, ESS discharge and grid purchase together
\* are at least the load; they are exactly the load in an hour whose PPA
\* purchase is below the load, and more than the load only in an hour whose
\* PPA purchase exceeds the load.
C3_LoadServed ==
    \A h \in Hours :
        LET r == ledger[h]
            served == r.total_ppa_this_hour + r.ess_discharge + r.grid_purchase
        IN  /\ served >= r.hour_load
            /\ r.total_ppa_this_hour < r.hour_load => served = r.hour_load
            /\ served > r.hour_load => r.total_ppa_this_hour > r.hour_load

\* A deficit hour served by PPA, by the ESS and by the grid together.
C3_Witness ==
    /\ hour = 2
    /\ ledger[2].total_ppa_this_hour > 0
    /\ ledger[2].ess_discharge > 0
    /\ ledger[2].grid_purchase > 0

\* C4: an hourly update that charges the ESS or resells takes nothing from
\* the ESS, buys nothing from the grid and leaves the peak alone; one that
\* discharges or buys from the grid neither charges nor resells; one whose
\* PPA purchase equals the load leaves the ESS, the grid cost and the peak
\* unchanged.
C4_OneBranch ==
    [][hour' = hour + 1 =>
        LET r == ledger'[hour']
            charged == ess_storage' > ess_storage
            resells == total_ppa_resold' > total_ppa_resold
            discharged == ess_storage' < ess_storage
            bought == r.grid_purchase > 0 \/ grid_energy_cost' > grid_energy_cost
        IN  /\ r.branch \in {"excess", "deficit"}
            /\ (charged \/ resells) =>
                  /\ ~discharged /\ ~bought
                  /\ ess_cost' = ess_cost
                  /\ grid_energy_cost' = grid_energy_cost
                  /\ peak_grid_demand_kw' = peak_grid_demand_kw
            /\ (discharged \/ bought) =>
                  /\ ~charged /\ ~resells
                  /\ total_ppa_excess' = total_ppa_excess
            /\ r.total_ppa_this_hour = r.hour_load =>
                  /\ ess_storage' = ess_storage
                  /\ ess_cost' = ess_cost
                  /\ grid_energy_cost' = grid_energy_cost
                  /\ peak_grid_demand_kw' = peak_grid_demand_kw]_vars

\* After an hour that charged the ESS, an hour whose PPA purchase equals a
\* positive load, with room left in the ESS.
C4_Witness ==
    /\ hour = 2
    /\ ledger[1].ess_charge > 0
    /\ ledger[2].hour_load > 0
    /\ ledger[2].total_ppa_this_hour = ledger[2].hour_load
    /\ ess_storage > 0
    /\ ess_storage < args.ess_capacity

\* C5: a call with ppa_coverage = 0 returns ppa_cost = 0, ess_cost = 0 and
\* total_cost = sum of load_kwh * grid_rate + max of load_kwh * contract_fee,
\* whatever the other arguments are.
GridOnlyCost ==
    SumTo([h \in 1..NumHours |-> load_kwh(args, h) * args.rate[h]], NumHours)
    + MaxTo([h \in 1..NumHours |-> load_kwh(args, h)], NumHours) * args.contract_fee

C5_ZeroCoverage ==
    (pc = "done" /\ args.ppa_coverage = 0) =>
        LET r == returned[Len(returned)]
        IN  /\ r.ppa_cost = 0
            /\ r.ess_cost = 0
            /\ r.total_cost = GridOnlyCost

\* Zero coverage with solar generation in the series, an ESS, a mintake
\* below 1 and the peak load in the first of two loaded hours.
C5_Witness ==
    /\ pc = "done"
    /\ args.ppa_coverage = 0
    /\ args.ess_capacity > 0
    /\ args.ppa_mintake < Percent
    /\ NumHours = 2
    /\ args.generation[1] > 0
    /\ args.load[1] > args.load[2]
    /\ args.load[2] > 0

\* C6: a call that differs from this one only in a larger ppa_mintake does
\* not return a smaller ppa_cost.
C6_MintakeMonotone ==
    pc = "done" =>
        \A m \in Mintakes :
            m >= args.ppa_mintake =>
                calculate_ppa_cost([args EXCEPT !.ppa_mintake = m]).ppa_cost
                    >= returned[Len(returned)].ppa_cost

\* With an ESS and resale, a larger mintake costs strictly more, although
\* the run has resold energy and discharged the ESS.
C6_Witness ==
    /\ pc = "done"
    /\ args.ess_capacity > 0
    /\ args.ppa_resell
    /\ args.ppa_mintake = 50
    /\ total_ppa_resold > 0
    /\ ess_cost > 0
    /\ calculate_ppa_cost([args EXCEPT !.ppa_mintake = 100]).ppa_cost > ppa_cost

\* C7: with ess_capacity = 0 the ESS is never charged nor discharged,
\* ess_storage and ess_cost stay 0, all excess of an hour is resold (resale
\* allowed) or wasted, and all deficit of an hour is bought from the grid.
C7_NoStorage ==
    args.ess_capacity = 0 =>
        /\ ess_storage = 0
        /\ ess_cost = 0
        /\ \A h \in Hours :
            LET r == ledger[h]
            IN  /\ r.ess_charge = 0
                /\ r.ess_discharge = 0
                /\ r.resold = IF args.ppa_resell
                              THEN max(r.total_ppa_this_hour - r.hour_load, 0)
                              ELSE 0
                /\ r.grid_purchase = max(r.hour_load - r.total_ppa_this_hour, 0)
        /\ total_ppa_resold = IF args.ppa_resell THEN total_ppa_excess ELSE 0
        /\ pc = "done" => returned[Len(returned)].ess_cost = 0

\* Without ESS: an hour with excess, then an hour with a deficit.
C7_Witness ==
    /\ pc = "done"
    /\ args.ess_capacity = 0
    /\ Len(ledger) = 2
    /\ ledger[1].excess_ppa > 0
    /\ ledger[2].grid_purchase > 0

\* C8: every call on the same arguments returns the same tuple, the one
\* that the arguments alone determine.
C8_SameResult ==
    \A i \in 1..Len(returned) :
        /\ returned[i] = calculate_ppa_cost(args)
        /\ \A j \in 1..Len(returned) : returned[i] = returned[j]

\* The second call has returned; each call charged the ESS in both hours
\* and left it full.
C8_Witness ==
    /\ Len(returned) = 2
    /\ Len(ledger) = 2
    /\ ledger[1].ess_charge > 0
    /\ ledger[2].ess_charge > 0
    /\ ess_storage = args.ess_capacity

\* C9: when the call has returned, grid_demand_cost is the peak times
\* contract_fee (the single largest hourly grid purchase, charged once),
\* grid_total_cost is grid_energy_cost plus grid_demand_cost, and
\* total_cost is ppa_cost plus grid_total_cost plus ess_cost.
C9_Totals ==
    pc = "done" =>
        LET r == returned[Len(returned)]
        IN  /\ grid_demand_cost = peak_grid_demand_kw * args.contract_fee
            /\ grid_demand_cost
                 = MaxTo(GridPurchases, Len(ledger)) * args.contract_fee
            /\ grid_total_cost = grid_energy_cost + grid_demand_cost
            /\ total_cost = ppa_cost + grid_total_cost + ess_cost
            /\ r = [total_cost |-> total_cost, ppa_cost |-> ppa_cost,
                    grid_total_cost |-> grid_total_cost,
                    grid_demand_cost |-> grid_demand_cost,
                    ess_cost |-> ess_cost]

\* Two hours bought from the grid, and every cost component is positive.
C9_Witness ==
    /\ pc = "done"
    /\ Len(ledger) = 2
    /\ ledger[1].grid_purchase > 0
    /\ ledger[2].grid_purchase > 0
    /\ ppa_cost > 0
    /\ grid_demand_cost > 0

\* C10: with resale disabled every hour adds (mandatory + optional) *
\* ppa_price to ppa_cost and nothing is taken off; an hour that leaves
\* excess unstored changes no other cost; with ppa_mintake = 1 and no ESS
\* the returned ppa_cost is the total generation * ppa_price and each hour's
\* grid purchase is the shortfall load - generation.
C10_NoResale ==
    [][~args.ppa_resell =>
        /\ hour' = hour + 1 =>
            LET r == ledger'[hour']
            IN  /\ ppa_cost' = ppa_cost
                      + (r.mandatory_ppa + r.optional_ppa_purchased) * args.ppa_price
                /\ total_ppa_resold' = 0
                /\ r.excess_ppa > r.ess_charge =>
                      /\ grid_energy_cost' = grid_energy_cost
                      /\ ess_cost' = ess_cost
                      /\ peak_grid_demand_kw' = peak_grid_demand_kw
        /\ (pc' = "done" /\ args.ppa_mintake = Percent /\ args.ess_capacity = 0) =>
            /\ ppa_cost' = args.ppa_price
                  * SumTo([h \in 1..NumHours |-> ppa_generation_kwh(args, h)], NumHours)
            /\ \A h \in 1..NumHours :
                  ledger'[h].grid_purchase
                      = max(load_kwh(args, h) - ppa_generation_kwh(args, h), 0)
            /\ grid_energy_cost' =
                  SumTo([h \in 1..NumHours |->
                          max(load_kwh(args, h) - ppa_generation_kwh(args, h), 0)
                              * args.rate[h]], NumHours)]_vars

\* Resale disabled, no ESS, full take: an hour of excess that is wasted and
\* an hour with a shortfall.
C10_Witness ==
    /\ pc = "done"
    /\ ~args.ppa_resell
    /\ args.ppa_mintake = Percent
    /\ args.ess_capacity = 0
    /\ Len(ledger) = 2
    /\ ledger[1].excess_ppa > 0
    /\ ledger[2].grid_purchase > 0
    /\ ledger[2].total_ppa_this_hour > 0

\* C11: with resale enabled, the total resold energy is the sum over the
\* hours of max(PPA purchased - load, 0) minus the energy charged into the
\* ESS that hour, and ppa_cost is total purchased * ppa_price minus total
\* resold * ppa_price * ppa_resellrate; with ppa_mintake = 1 the purchased
\* energy is the full generation.
C11_ResaleReconciled ==
    args.ppa_resell =>
        /\ total_ppa_resold =
              SumTo([h \in Hours |->
                      max(ledger[h].total_ppa_this_hour - ledger[h].hour_load, 0)
                          - ledger[h].ess_charge], Len(ledger))
        /\ ppa_cost = total_ppa_purchased * args.ppa_price
                        - Scale(args.ppa_resellrate,
                                total_ppa_resold * args.ppa_price)
        /\ args.ppa_mintake = Percent =>
              total_ppa_purchased =
                  SumTo([h \in Hours |-> ppa_generation_kwh(args, h)], Len(ledger))

\* Full take, resale at half price: the excess of an hour is split between
\* the ESS and the resale, and the next hour's excess is all resold.
C11_Witness ==
    /\ pc = "done"
    /\ args.ppa_resell
    /\ args.ppa_resellrate < Percent
    /\ args.ppa_mintake = Percent
    /\ Len(ledger) = 2
    /\ ledger[1].ess_charge > 0
    /\ ledger[1].resold > 0
    /\ ledger[2].resold > 0
    /\ ledger[2].ess_charge = 0

\* C19: of two runs on the same series and parameters, the one with an ESS
\* buys in no hour more grid energy than the one with ess_capacity = 0, and
\* its grid energy cost, its peak grid demand and its demand charge are not
\* higher.  Every hour of a run is the hour just processed in one of the
\* states of the run, where its purchase is compared.
NoEss == [args EXCEPT !.ess_capacity = 0]

C19_EssNeverBuysMore ==
    args.ess_capacity > 0 =>
        /\ hour > 0 =>
              ledger[hour].grid_purchase <= LedgerRow(NoEss, hour).grid_purchase
        /\ pc = "done" =>
              LET without == calculate_ppa_cost(NoEss)
                  end == LoopLocals(NoEss, NumHours)
              IN  /\ grid_energy_cost <= end.grid_energy_cost
                  /\ peak_grid_demand_kw <= end.peak_grid_demand_kw
                  /\ grid_demand_cost <= without.grid_demand_cost
                  /\ grid_total_cost <= without.grid_total_cost

\* The ESS, charged in the first hour, serves part of the deficit of the
\* second: the grid purchase, the grid cost and the peak are all lower.
C19_Witness ==
    /\ pc = "done"
    /\ args.ess_capacity > 0
    /\ Len(ledger) = 2
    /\ ledger[2].ess_discharge > 0
    /\ ledger[2].grid_purchase > 0
    /\ ledger[2].grid_purchase < LedgerRow(NoEss, 2).grid_purchase
    /\ grid_energy_cost < LoopLocals(NoEss, 2).grid_energy_cost
    /\ grid_demand_cost < calculate_ppa_cost(NoEss).grid_demand_cost

\* C20: in every hour the optional PPA purchase is non-zero only if
\* ppa_price is strictly below the hour's grid rate and the load exceeds the
\* mandatory purchase, and it is then min(generation - mandatory, load -
\* mandatory); at ppa_price = grid_rate nothing optional is bought; the
\* amount is determined by the hour's own values, whatever the ESS holds.
C20_OptionalPurchase ==
    \A h \in Hours :
        LET r == ledger[h]
            cheaper == args.ppa_price < r.hour_grid_rate
            needed == r.hour_load > r.mandatory_ppa
        IN  /\ r.optional_ppa_purchased # 0 => cheaper /\ needed
            /\ r.optional_ppa_purchased =
                  IF cheaper /\ needed
                  THEN min(r.hour_ppa_gen - r.mandatory_ppa,
                           r.hour_load - r.mandatory_ppa)
                  ELSE 0
            /\ args.ppa_price = r.hour_grid_rate => r.optional_ppa_purchased = 0
            /\ h = hour =>
                  r.optional_ppa_purchased
                      = LedgerRow(NoEss, h).optional_ppa_purchased

\* With energy in the ESS from the hour before, an hour at a grid rate above
\* the PPA price buys optional energy on top of its mandatory take.
C20_Witness ==
    /\ hour = 2
    /\ ledger[1].ess_charge > 0
    /\ ledger[2].hour_grid_rate > args.ppa_price
    /\ ledger[2].mandatory_ppa > 0
    /\ ledger[2].optional_ppa_purchased > 0
    /\ ledger[2].ess_discharge = 0

\* C16: if the series do not all have the same length, the run is rejected
\* before the first hour is simulated: no hour is processed, no accumulator
\* is updated and no result is returned, whichever series is the shorter.
Misaligned ==
    \/ Len(args.load) # Len(args.generation)
    \/ Len(args.load) # Len(args.rate)

C16_RejectedBeforeFirstHour ==
    Misaligned =>
        /\ hour = 0
        /\ ledger = <<>>
        /\ Locals = InitLocals
        /\ pc # "done"
        /\ returned = <<>>

\* C18: for every hour, the long-format record of the scenario carries the
\* quantities the engine computed for that hour (mandatory and optional PPA
\* purchase, PPA excess, grid purchase, PPA cost net of resale, grid energy
\* cost), and when the run has returned their sums over the hours are the
\* engine's totals.
C18_LongFormatSame ==
    /\ \A h \in Hours :
          LET r == ledger[h]
              rec == create_long_format_dataframe(args, h)
          IN  /\ rec.PPA_Mandatory_kWh = r.mandatory_ppa
              /\ rec.PPA_Optional_kWh = r.optional_ppa_purchased
              /\ rec.PPA_Excess_kWh = r.excess_ppa
              /\ rec.Grid_Purchase_kWh = r.grid_purchase
              /\ rec.PPA_Cost_KRW =
                    r.total_ppa_this_hour * args.ppa_price
                      - resell_revenue(r.resold, args.ppa_price, args.ppa_resellrate)
              /\ rec.Grid_Cost_KRW = r.grid_purchase * r.hour_grid_rate
    /\ pc = "done" =>
          LET rec == [h \in 1..NumHours |-> create_long_format_dataframe(args, h)]
          IN  /\ SumTo([h \in 1..NumHours |-> rec[h].PPA_Cost_KRW], NumHours) = ppa_cost
              /\ SumTo([h \in 1..NumHours |-> rec[h].Grid_Cost_KRW], NumHours)
                    = grid_energy_cost
              /\ SumTo([h \in 1..NumHours |-> rec[h].PPA_Purchase_kWh], NumHours)
                    = total_ppa_purchased
              /\ SumTo([h \in 1..NumHours |-> rec[h].PPA_Excess_kWh], NumHours)
                    = total_ppa_excess

\* The first index of keys with the least key.
FirstMinimum(keys) ==
    CHOOSE i \in 1..Len(keys) :
        /\ \A j \in 1..Len(keys) : keys[i] <= keys[j]
        /\ \A j \in 1..(i - 1) : keys[j] > keys[i]

TotalCosts == [i \in 1..Len(results_summary) |-> results_summary[i].total_cost]
TotalCostsWithCarbon ==
    [i \in 1..Len(results_summary) |-> results_summary[i].total_cost_with_carbon]

\* C12 as stated: find_optimal_scenario returns the ppa_percent and the cost
\* of the first result in list order whose total_cost is minimal over the
\* whole list.
C12_MinTotalCost ==
    optimal # <<>> =>
        LET i == FirstMinimum(TotalCosts)
        IN  optimal = <<results_summary[i].ppa_percent, results_summary[i].total_cost>>

\* C12, amended: when include_carbon is false or no result of the list has a
\* positive carbon_cost, find_optimal_scenario returns the ppa_percent and
\* the total_cost of a result whose total_cost is minimal over the whole
\* list, the first one in list order when several share the minimum.
C12_MinTotalCostNoCarbon ==
    (/\ optimal # <<>>
     /\ \/ ~include_carbon
        \/ \A i \in 1..Len(results_summary) : results_summary[i].carbon_cost <= 0) =>
        LET i == FirstMinimum(TotalCosts)
        IN  optimal = <<results_summary[i].ppa_percent, results_summary[i].total_cost>>

\* Three results, the last two sharing the least total_cost: the second one
\* is returned, although the carbon costs would make the first the cheapest.
C12_Witness ==
    /\ optimal = <<50, 90000>>
    /\ ~include_carbon
    /\ TotalCosts = <<100000, 90000, 90000>>
    /\ results_summary[1].carbon_cost = 0
    /\ results_summary[2].carbon_cost > 0
    /\ results_summary[3].carbon_cost > 0

\* C13: when carbon_price > 0 and include_carbon is true, find_optimal_scenario
\* returns the first result that minimizes total_cost_with_carbon over the
\* whole list, with that cost, for every result list; otherwise the one that
\* minimizes total_cost.
C13_CarbonInclusive ==
    optimal # <<>> =>
        IF config.carbon_price > 0 /\ include_carbon
        THEN LET i == FirstMinimum(TotalCostsWithCarbon)
             IN  optimal = <<results_summary[i].ppa_percent,
                             results_summary[i].total_cost_with_carbon>>
        ELSE LET i == FirstMinimum(TotalCosts)
             IN  optimal = <<results_summary[i].ppa_percent,
                             results_summary[i].total_cost>>

\* C14: each sweep invokes the engine exactly once for each percentage start,
\* start + step, ... not above ppa_range_end (which is included when end -
\* start is divisible by step), with ppa_coverage = percent / 100, and
\* returns one result per percentage in ascending order.
ExpectedPercents ==
    LET first == config.ppa_range_start
        last == config.ppa_range_end
        step == config.ppa_range_step
        n == IF last < first THEN 0 ELSE (last - first) \div step + 1
    IN  [i \in 1..n |-> first + (i - 1) * step]

SweepReturned == mpc \in {"optimal", "ess_call", "ess", "optimal_ess", "done"}
EssSweepReturned == mpc = "optimal_ess" \/ (mpc = "done" /\ config.ess_include)

C14_OncePerPercent ==
    /\ Len(calls) = Len(results_summary) + Len(results_ess)
    /\ SweepReturned =>
          LET e == ExpectedPercents
              n == Len(e)
          IN  /\ Len(results_summary) = n
              /\ \A i \in 1..n :
                    /\ results_summary[i].ppa_percent = e[i]
                    /\ calls[i] = [ppa_coverage |-> e[i], ess_capacity |-> 0]
                    /\ e[i] <= config.ppa_range_end
                    /\ \A j \in 1..(i - 1) : e[j] < e[i]
              /\ n > 0
              /\ e[1] = config.ppa_range_start
              /\ e[n] + config.ppa_range_step > config.ppa_range_end
              /\ (config.ppa_range_end - config.ppa_range_start)
                     % config.ppa_range_step = 0
                   => e[n] = config.ppa_range_end
              /\ EssSweepReturned =>
                    /\ Len(results_ess) = n
                    /\ \A i \in 1..n :
                          /\ results_ess[i].ppa_percent = e[i]
                          /\ calls[n + i] = [ppa_coverage |-> e[i],
                                             ess_capacity |-> ess_capacity_kwh]

\* Both sweeps have run over 0, 50 and 100 percent: six engine calls.
C14_Witness ==
    /\ mpc = "done"
    /\ config.ess_include
    /\ ess_capacity_kwh > 0
    /\ Len(calls) = 6
    /\ results_summary[3].ppa_percent = 100
    /\ results_ess[3].ppa_percent = config.ppa_range_end

\* C15: when the total load energy is zero, the per-kWh normalizations of a
\* scenario result are a defined sentinel, 0 or not applicable (nan, the
\* missing value of the tables), and the sweep does not fail on the division.
PerKwh(r) ==
    {r.total_cost_per_kwh, r.ppa_cost_per_kwh, r.grid_energy_cost_per_kwh,
     r.grid_demand_cost_per_kwh, r.ess_cost_per_kwh, r.carbon_cost_per_kwh,
     r.total_cost_with_carbon_per_kwh, r.emissions_per_kwh}

Sentinel(q) == q.kind = "nan" \/ (q.kind = "finite" /\ q.num = 0)

C15_ZeroLoadSentinel ==
    \A list \in {results_summary, results_ess} :
        \A i \in 1..Len(list) :
            list[i].total_electricity_kwh = 0 =>
                \A q \in PerKwh(list[i]) : Sentinel(q)

\* C17: validate_config returns one message for every violated rule and no
\* other, is_valid is true exactly when errors is empty, and when is_valid is
\* false the caller makes no engine call and has no result.
Violated(c) ==
    (IF c.ppa_range_start < 0 THEN {"ppa_range_start must be >= 0"} ELSE {})
    \cup (IF c.ppa_range_end < c.ppa_range_start
          THEN {"ppa_range_end must be >= ppa_range_start"} ELSE {})
    \cup (IF c.ppa_range_step <= 0 THEN {"ppa_range_step must be > 0"} ELSE {})
    \cup (IF c.ppa_price <= 0 THEN {"ppa_price must be > 0"} ELSE {})
    \cup (IF c.ppa_mintake < 0 \/ c.ppa_mintake > Percent
          THEN {"ppa_mintake must be between 0 and 1"} ELSE {})
    \cup (IF c.ppa_resellrate < 0 \/ c.ppa_resellrate > Percent
          THEN {"ppa_resellrate must be between 0 and 1"} ELSE {})
    \cup (IF c.ess_capacity < 0 THEN {"ess_capacity must be >= 0"} ELSE {})
    \cup (IF c.ess_price < 0 THEN {"ess_price must be >= 0"} ELSE {})
    \cup (IF c.load_capacity_mw <= 0 THEN {"load_capacity_mw must be > 0"} ELSE {})
    \cup (IF {c.start_date, c.end_date} \subseteq WellFormedDates
          THEN {} ELSE {"Dates must be in YYYY-MM-DD format"})

C17_AllErrorsNoRun ==
    mpc # "validate" =>
        /\ {errors[i] : i \in 1..Len(errors)} = Violated(config)
        /\ Len(errors) = Cardinality(Violated(config))
        /\ is_valid <=> errors = <<>>
        /\ ~is_valid =>
              /\ mpc = "aborted"
              /\ calls = <<>>
              /\ results_summary = <<>> /\ results_ess = <<>>
              /\ optimal = <<>> /\ optimal_ess = <<>>

\* A configuration that violates nine of the ten rules has been reported
\* with nine messages, and the run has returned.
C17_Witness ==
    /\ mpc = "aborted"
    /\ ~is_valid
    /\ Len(errors) = 9
    /\ errors[1] = "ppa_range_end must be >= ppa_range_start"
    /\ errors[9] = "Dates must be in YYYY-MM-DD format"

\* C21: an excess hour charges the ESS first, with min(excess, ess_capacity -
\* ess_storage), at no cost; only the excess left after charging is resold,
\* when resale is enabled, and takes leftover * ppa_price * ppa_resellrate
\* off ppa_cost; the energy stored is not counted as resold.
C21_ChargeThenResell ==
    [][(hour' = hour + 1 /\ ledger'[hour'].branch = "excess") =>
        LET r == ledger'[hour']
            excess == r.total_ppa_this_hour - r.hour_load
            charge == min(excess, args.ess_capacity - ess_storage)
            leftover == excess - charge
            resold == total_ppa_resold' - total_ppa_resold
        IN  /\ r.ess_charge = charge
            /\ ess_storage' = ess_storage + charge
            /\ ess_cost' = ess_cost
            /\ grid_energy_cost' = grid_energy_cost
            /\ resold = IF args.ppa_resell THEN leftover ELSE 0
            /\ r.resold = resold
            /\ charge + resold <= excess
            /\ ppa_cost' = ppa_cost + r.total_ppa_this_hour * args.ppa_price
                             - (IF args.ppa_resell
                                THEN Scale(args.ppa_resellrate,
                                           leftover * args.ppa_price)
                                ELSE 0)]_vars

\* After a deficit hour, an hour whose excess fills the empty ESS and leaves
\* a rest that is resold below the PPA price.
C21_Witness ==
    /\ hour = 2
    /\ ledger[1].branch = "deficit"
    /\ ledger[2].branch = "excess"
    /\ ledger[2].ess_charge > 0
    /\ ledger[2].resold > 0
    /\ ledger[2].ess_charge + ledger[2].resold = ledger[2].excess_ppa
    /\ args.ppa_resell /\ args.ppa_resellrate < Percent
    /\ ess_storage = args.ess_capacity

\* C22: a deficit hour discharges the ESS first, by min(deficit,
\* ess_storage), and adds discharge * ppa_price * ess_price to ess_cost,
\* whatever the grid rate of the hour is; only the deficit left after the
\* discharge is bought from the grid, at the hour's grid rate, and counted
\* toward the peak.
C22_DischargeThenGrid ==
    [][(hour' = hour + 1 /\ ledger'[hour'].branch = "deficit") =>
        LET r == ledger'[hour']
            deficit == r.hour_load - r.total_ppa_this_hour
            discharge == min(deficit, ess_storage)
            rest == deficit - discharge
        IN  /\ deficit > 0
            /\ r.ess_discharge = discharge
            /\ ess_storage' = ess_storage - discharge
            /\ ess_cost' = ess_cost
                  + Scale(args.ess_price, discharge * args.ppa_price)
            /\ r.grid_purchase = rest
            /\ grid_energy_cost' = grid_energy_cost + rest * args.rate[hour']
            /\ peak_grid_demand_kw' = max(peak_grid_demand_kw, rest)
            /\ ppa_cost' = ppa_cost + r.total_ppa_this_hour * args.ppa_price]_vars

\* A deficit hour at a grid rate below the cost of a kWh from the ESS: the
\* ESS is emptied all the same and the grid serves the rest.
C22_Witness ==
    /\ hour = 2
    /\ ledger[1].ess_charge > 0
    /\ ledger[2].branch = "deficit"
    /\ ledger[2].hour_grid_rate * Percent < args.ppa_price * args.ess_price
    /\ ledger[2].ess_discharge > 0
    /\ ledger[2].grid_purchase > 0
    /\ ess_storage = 0
    /\ ess_cost > grid_energy_cost

\* C23: run_ess_analysis computes the ESS capacity once, as max(normalized
\* solar) * load_capacity_mw * ess_capacity fraction * 1000, and passes this
\* one value to every engine run of its sweep, whatever the coverage of the
\* scenario is.
PeakSolar ==
    CHOOSE m \in {data.generation[h] : h \in 1..Len(data.generation)} :
        \A h \in 1..Len(data.generation) : m >= data.generation[h]

ExpectedEssCapacity ==
    (PeakSolar * config.load_capacity_mw * config.ess_capacity * KwhPerMw)
        \div (Percent * Percent)

EssSweepEntered == mpc \in {"ess", "optimal_ess"} \/ (mpc = "done" /\ config.ess_include)

C23_EssCapacityFixed ==
    EssSweepEntered =>
        /\ ess_capacity_kwh = ExpectedEssCapacity
        /\ Len(calls) = Len(results_summary) + Len(results_ess)
        /\ \A i \in (Len(results_summary) + 1)..Len(calls) :
              /\ calls[i].ess_capacity = ExpectedEssCapacity
              /\ calls[i].ppa_coverage = results_ess[i - Len(results_summary)].ppa_percent
              /\ \A j \in (Len(results_summary) + 1)..Len(calls) :
                    calls[j].ess_capacity = calls[i].ess_capacity

\* The solar series peaks in its second hour; the sweep with ESS has run
\* the coverages 0, 50 and 100 percent, each with the same 500 kWh.
C23_Witness ==
    /\ mpc = "done"
    /\ data.generation[1] < data.generation[2]
    /\ config.ess_include
    /\ Len(results_ess) = 3
    /\ ess_capacity_kwh = 500
    /\ calls[Len(calls) - 2] = [ppa_coverage |-> 0, ess_capacity |-> 500]
    /\ calls[Len(calls) - 1] = [ppa_coverage |-> 50, ess_capacity |-> 500]
    /\ calls[Len(calls)] = [ppa_coverage |-> 100, ess_capacity |-> 500]

\* C24: every engine run of a sweep starts from a fresh state (ess_storage,
\* peak and all accumulators 0) and shares no state with the other runs:
\* whatever runs are made before it, after it or interleaved with it, with
\* or without ESS, its state after k hours and its result are those its own
\* arguments determine.
C24_RunsIndependent ==
    \A i \in 1..Len(frames) :
        LET f == frames[i]
        IN  /\ f.hour = 0 => f.s = InitLocals
            /\ f.s = LoopLocals(f.args, f.hour)
            /\ f.pc = "done" =>
                  /\ f.result = calculate_ppa_cost(f.args)
                  /\ \A j \in 1..Len(frames) :
                        (frames[j].pc = "done" /\ frames[j].args = f.args) =>
                            frames[j].result = f.result

\* A run with ESS holds stored energy after its first hour while a run
\* without ESS on the same coverage, entered later, has already returned.
C24_Witness ==
    /\ Len(frames) = 2
    /\ frames[1].args.ess_capacity > 0
    /\ frames[2].args.ess_capacity = 0
    /\ frames[1].args.ppa_coverage = frames[2].args.ppa_coverage
    /\ frames[1].pc = "loop" /\ frames[1].hour = 1
    /\ frames[1].s.ess_storage > 0
    /\ frames[2].pc = "done"
    /\ frames[2].result.grid_total_cost > 0

\* C25: the total emissions of a scenario are the sum over the hours of the
\* hour's grid purchase (the load left after PPA and ESS discharge) times the
\* hour's emission factor, PPA and ESS energy adding nothing; its carbon_cost
\* is (total_emissions / 1000) * carbon_price and its total_cost_with_carbon
\* is total_cost + carbon_cost; a configuration without carbon_price has
\* carbon_price 0.
ResultOfCall(i) ==
    IF i <= Len(results_summary)
    THEN results_summary[i]
    ELSE results_ess[i - Len(results_summary)]

GridEmissions(a) ==
    SumTo([h \in 1..Len(a.load) |->
            LET r == LedgerRow(a, h)
            IN  data.emission[h]
                  * max(r.hour_load - r.total_ppa_this_hour - r.ess_discharge, 0)],
          Len(a.load)) \div Percent

CarbonPriceOf(c) == IF "carbon_price" \in DOMAIN c THEN c.carbon_price ELSE 0

ListedError(c) ==
    \/ c.ppa_price < 0 \/ CarbonPriceOf(c) < 0
    \/ c.ppa_mintake < 0 \/ c.ppa_mintake > Percent
    \/ c.ppa_resellrate < 0 \/ c.ppa_resellrate > Percent
    \/ c.load_capacity_mw <= 0
    \/ c.start_date \notin WellFormedDates \/ c.end_date \notin WellFormedDates
    \/ c.ppa_range_end < c.ppa_range_start
    \/ c.ppa_range_step <= 0

ConfigInvariant(c) ==
    /\ 0 <= c.ppa_mintake /\ c.ppa_mintake <= Percent
    /\ 0 <= c.ppa_resellrate /\ c.ppa_resellrate <= Percent
    /\ c.ppa_price >= 0 /\ CarbonPriceOf(c) >= 0 /\ c.ess_price >= 0

C26_ValidationComplete ==
    mpc # "validate" =>
        /\ ListedError(config) => ~is_valid
        /\ (/\ ConfigInvariant(config)
            /\ ~ListedError(config)
            /\ config.ppa_range_start >= 0
            /\ config.ess_capacity >= 0) => is_valid

\* C27: at every hour of a run the energy discharged from the ESS so far is
\* at most the energy charged into it so far, and ess_storage is the
\* difference of the two; the ESS starts empty, so there is no discharge and
\* no ess_cost before the first excess hour.
CumulativeCharge == SumTo([h \in Hours |-> ledger[h].ess_charge], Len(ledger))
CumulativeDischarge == SumTo([h \in Hours |-> ledger[h].ess_discharge], Len(ledger))

C27_DischargeWithinCharge ==
    /\ CumulativeDischarge <= CumulativeCharge
    /\ ess_storage = CumulativeCharge - CumulativeDischarge
    /\ hour = 0 => ess_storage = 0 /\ ess_cost = 0
    /\ \A h \in Hours :
          ledger[h].ess_discharge > 0 =>
              \E g \in 1..(h - 1) :
                  ledger[g].branch = "excess" /\ ledger[g].ess_charge > 0
    /\ ess_cost > 0 => CumulativeDischarge > 0
    /\ (\A h \in Hours : ledger[h].branch = "deficit") => ess_cost = 0

\* The run has returned: the ESS took 500 kWh in the first hour and gave
\* them all back in the second, at a cost.
C27_Witness ==
    /\ pc = "done"
    /\ Len(ledger) = 2
    /\ CumulativeCharge = 500
    /\ CumulativeDischarge = 500
    /\ ledger[2].ess_discharge = 500
    /\ ess_storage = 0
    /\ ess_cost > 0

\* C28: in every hour the grid purchase is between 0 and the hour's load and
\* the PPA purchase is between the mandatory take and the hour's PPA
\* generation, so the peak never exceeds the largest hourly load and the
\* demand charge is at most max(load_kwh) * contract_fee; an optional
\* purchase never creates excess, which arises only from the mandatory take.
\* The arguments are those of a validated run: ppa_mintake in [0, 1], load
\* and generation not negative.
MaxLoad == MaxTo([h \in 1..NumHours |-> load_kwh(args, h)], NumHours)

C28_PurchasesBounded ==
    /\ \A h \in Hours :
          LET r == ledger[h]
          IN  /\ 0 <= r.grid_purchase /\ r.grid_purchase <= r.hour_load
              /\ r.mandatory_ppa <= r.total_ppa_this_hour
              /\ r.total_ppa_this_hour <= r.hour_ppa_gen
              /\ r.optional_ppa_purchased > 0 =>
                    /\ r.total_ppa_this_hour <= r.hour_load
                    /\ r.excess_ppa = 0
              /\ r.excess_ppa > 0 =>
                    /\ r.optional_ppa_purchased = 0
                    /\ r.excess_ppa = r.mandatory_ppa - r.hour_load
    /\ peak_grid_demand_kw <= MaxLoad
    /\ pc = "done" => grid_demand_cost <= MaxLoad * args.contract_fee

\* An hour that buys all the generation, part of it optional, and the rest
\* of its load from the grid, then an hour whose mandatory take alone
\* exceeds the load; the demand charge is below max(load_kwh) * contract_fee.
C28_Witness ==
    /\ pc = "done"
    /\ Len(ledger) = 2
    /\ ledger[1].optional_ppa_purchased > 0
    /\ ledger[1].mandatory_ppa > 0
    /\ ledger[1].total_ppa_this_hour = ledger[1].hour_ppa_gen
    /\ ledger[1].grid_purchase > 0
    /\ ledger[1].grid_purchase < ledger[1].hour_load
    /\ ledger[2].excess_ppa > 0
    /\ ledger[2].mandatory_ppa > ledger[2].hour_load
    /\ grid_demand_cost > 0
    /\ grid_demand_cost < MaxLoad * args.contract_fee

\* C29: with ppa_price >= 0 and ppa_mintake, ppa_resellrate in [0, 1], the
\* running ppa_cost is not negative after any hour: the resale revenue of an
\* hour is at most what was paid for the PPA energy of that hour, so resale
\* never turns the PPA into a net income.
C29_PpaCostNonNegative ==
    (/\ args.ppa_price >= 0
     /\ 0 <= args.ppa_mintake /\ args.ppa_mintake <= Percent
     /\ 0 <= args.ppa_resellrate /\ args.ppa_resellrate <= Percent) =>
        /\ ppa_cost >= 0
        /\ \A h \in Hours :
              LET r == ledger[h]
                  paid == r.total_ppa_this_hour * args.ppa_price
                  revenue == Scale(args.ppa_resellrate, r.resold * args.ppa_price)
              IN  /\ r.resold <= r.total_ppa_this_hour
                  /\ revenue <= paid
        /\ pc = "done" => returned[Len(returned)].ppa_cost >= 0

\* No load and no ESS, resale at the full PPA price: everything bought in
\* the two hours was resold for what it cost, and ppa_cost is exactly 0.
C29_Witness ==
    /\ pc = "done"
    /\ args.ppa_resell /\ args.ppa_resellrate = Percent
    /\ Len(ledger) = 2
    /\ ledger[1].resold > 0
    /\ ledger[2].resold > 0
    /\ total_ppa_resold = total_ppa_purchased
    /\ ppa_cost = 0

\* C30: for every configuration validate_config accepts, the sweep range
\* range(ppa_range_start, ppa_range_end + 1, ppa_range_step) is not empty
\* and begins with ppa_range_start, so find_optimal_scenario always receives
\* at least one result and returns a ppa_percent of the swept range.
InRange(percent) ==
    /\ config.ppa_range_start <= percent /\ percent <= config.ppa_range_end
    /\ (percent - config.ppa_range_start) % config.ppa_range_step = 0

C30_RangeNotEmpty ==
    /\ mpc # "ValueError"
    /\ (is_valid /\ mpc \notin {"validate", "scenario_call", "scenario"}) =>
          /\ Len(results_summary) >= 1
          /\ results_summary[1].ppa_percent = config.ppa_range_start
          /\ \A i \in 1..Len(results_summary) : InRange(results_summary[i].ppa_percent)
    /\ optimal # <<>> =>
          /\ InRange(optimal[1])
          /\ \E i \in 1..Len(results_summary) :
                results_summary[i].ppa_percent = optimal[1]
    /\ optimal_ess # <<>> =>
          /\ Len(results_ess) >= 1
          /\ results_ess[1].ppa_percent = config.ppa_range_start
          /\ InRange(optimal_ess[1])
          /\ \E i \in 1..Len(results_ess) :
                results_ess[i].ppa_percent = optimal_ess[1]

\* A range of one percentage, its end being less than a step above its
\* start: both sweeps have one result and it is the optimum of each.
C30_Witness ==
    /\ mpc = "done"
    /\ config.ess_include
    /\ config.ppa_range_end < config.ppa_range_start + config.ppa_range_step
    /\ config.ppa_range_end > config.ppa_range_start
    /\ Len(results_summary) = 1
    /\ Len(results_ess) = 1
    /\ optimal[1] = config.ppa_range_start
    /\ optimal_ess[1] = config.ppa_range_start

====
